---- MODULE Spec2Model ----
(***************************************************************************)
(* Model of the nextpost scheduling and publication pipeline               *)
(* (backend/scheduler: models.py, serializers.py, views.py, tasks.py).     *)
(*                                                                         *)
(* Reading conventions:                                                    *)
(*  - The code writes Post.PostStatus.X; the enumeration lives at module   *)
(*    level in models.py (PostStatus).  The model reads every such         *)
(*    reference as the PostStatus member it names.                         *)
(*  - The code reads a post's media through post.postmediaasset_set; the   *)
(*    relation is declared with related_name 'post_media_assets'.  The     *)
(*    model reads the accessor as that relation.  Posts have no           *)
(*    PostMediaAsset rows; the legacy image field is a boolean.           *)
(*  - The database is a transactional store with READ COMMITTED reads and  *)
(*    a per-row write lock held until the writing transaction ends.        *)
(*    Statements outside transaction.atomic() commit on their own.         *)
(*  - The broker delivers a task message when its eta has passed, at       *)
(*    least once; a revoked task id is not executed.                       *)
(*  - Time is counted in seconds; the clock advances in steps of TickStep. *)
(***************************************************************************)
EXTENDS Integers, Sequences, FiniteSets, TLC

\* ---------------------------------------------------------------- bounds
MaxPosts == 1
NumWorkers == 2
MaxTasks == 2
MaxTicks == 2
MaxDuplicates == 1
MaxTransient == 2
MaxCalls == 2

\* ------------------------------------------------------ program constants
TickStep == 60
max_retries == 3
NULL == 0
MaxErrorLen == 1000

DRAFT == "draft"
SCHEDULED == "scheduled"
PUBLISHING == "publishing"
PUBLISHED == "published"
FAILED == "failed"
CANCELLED == "cancelled"

PostStatus == {DRAFT, SCHEDULED, PUBLISHING, PUBLISHED, FAILED, CANCELLED}

PostIds == 1..MaxPosts
Workers == 1..NumWorkers
Platforms == {"twitter_post", "instagram_story"}
ContentLens == {100, 300}

VARIABLES now, posts, account, queue, revoked, nextTask, dups, workers, lock, hist, up,
          validated

vars == <<now, posts, account, queue, revoked, nextTask, dups, workers, lock, hist, up,
          validated>>

\* ------------------------------------------------------------ validation
\* models.py 271-275: the rule set of a kind without an entry.
DefaultRules ==
  [max_length |-> 1000, required_assets |-> {},
   supports_images |-> TRUE, supports_videos |-> FALSE]

\* get_platform_rules with a default that depends on the kind.
get_platform_rules_PerKindDefault(platform) ==
  CASE platform = "facebook_page" -> [max_length |-> 63206, required_assets |-> {},
         supports_images |-> TRUE, supports_videos |-> TRUE]
    [] platform = "instagram_feed" -> [max_length |-> 2200, required_assets |-> {"image"},
         supports_images |-> TRUE, supports_videos |-> TRUE]
    [] platform = "instagram_story" -> [max_length |-> 2200, required_assets |-> {"image"},
         supports_images |-> TRUE, supports_videos |-> TRUE]
    [] platform = "twitter_post" -> [max_length |-> 280, required_assets |-> {},
         supports_images |-> TRUE, supports_videos |-> TRUE]
    [] platform = "linkedin_personal" -> [max_length |-> 3000, required_assets |-> {},
         supports_images |-> TRUE, supports_videos |-> TRUE]
    [] platform = "tiktok_post" -> [max_length |-> 2200, required_assets |-> {"video"},
         supports_images |-> FALSE, supports_videos |-> TRUE]
    [] platform = "youtube_short" -> [max_length |-> 1000, required_assets |-> {"video"},
         supports_images |-> FALSE, supports_videos |-> TRUE]
    [] OTHER -> DefaultRules

\* models.py 220-275: the rule set of a platform kind (max_length and
\* required_assets are the keys validation reads; a rule set without
\* required_assets requires none, one without supports_images supports
\* none), with the default of rules_map.get.
get_platform_rules(platform) ==
  CASE platform = "facebook_page" -> [max_length |-> 63206, required_assets |-> {},
         supports_images |-> TRUE, supports_videos |-> TRUE]
    [] platform = "instagram_feed" -> [max_length |-> 2200, required_assets |-> {"image"},
         supports_images |-> TRUE, supports_videos |-> TRUE]
    [] platform = "instagram_story" -> [max_length |-> 2200, required_assets |-> {"image"},
         supports_images |-> TRUE, supports_videos |-> TRUE]
    [] platform = "twitter_post" -> [max_length |-> 280, required_assets |-> {},
         supports_images |-> TRUE, supports_videos |-> TRUE]
    [] platform = "linkedin_personal" -> [max_length |-> 3000, required_assets |-> {},
         supports_images |-> TRUE, supports_videos |-> TRUE]
    [] platform = "tiktok_post" -> [max_length |-> 2200, required_assets |-> {"video"},
         supports_images |-> FALSE, supports_videos |-> TRUE]
    [] OTHER -> DefaultRules

\* validate_for_platform with a length message that leaves the counts out.
validate_for_platform_NoCounts(content, platform, hasImage, hasVideo) ==
  LET rules == get_platform_rules(platform)
      e1 == IF content > rules.max_length THEN <<"Contenu trop long">> ELSE <<>>
      e2 == IF "image" \in rules.required_assets /\ ~hasImage
              THEN <<"Une image est requise pour cette plateforme">> ELSE <<>>
      e3 == IF "video" \in rules.required_assets /\ ~hasVideo
              THEN <<"Une video est requise pour cette plateforme">> ELSE <<>>
  IN e1 \o e2 \o e3

\* validate_for_platform with the media checks ahead of the length check.
validate_for_platform_MediaFirst(content, platform, hasImage, hasVideo) ==
  LET rules == get_platform_rules(platform)
      e1 == IF content > rules.max_length
              THEN <<"Contenu trop long (" \o ToString(content) \o "/"
                       \o ToString(rules.max_length) \o " caracteres)">>
              ELSE <<>>
      e2 == IF "image" \in rules.required_assets /\ ~hasImage
              THEN <<"Une image est requise pour cette plateforme">> ELSE <<>>
      e3 == IF "video" \in rules.required_assets /\ ~hasVideo
              THEN <<"Une video est requise pour cette plateforme">> ELSE <<>>
  IN e2 \o e3 \o e1

\* The violation list of a post with an account: length (with the actual and
\* the limit character counts), image, video.
validate_for_platform(content, platform, hasImage, hasVideo) ==
  LET rules == get_platform_rules(platform)
      e1 == IF content > rules.max_length
              THEN <<"Contenu trop long (" \o ToString(content) \o "/"
                       \o ToString(rules.max_length) \o " caracteres)">>
              ELSE <<>>
      e2 == IF "image" \in rules.required_assets /\ ~hasImage
              THEN <<"Une image est requise pour cette plateforme">> ELSE <<>>
      e3 == IF "video" \in rules.required_assets /\ ~hasVideo
              THEN <<"Une video est requise pour cette plateforme">> ELSE <<>>
  IN e1 \o e2 \o e3

\* models.py 207-208 and 213-214: the legacy file field or a linked media
\* asset of that type (media_assets holds the links to the assets: the
\* order of the link, the file type and the URL of each asset).
has_image(post) == post.image \/ \E a \in post.media_assets : a.file_type = "image"

has_video(post) == post.video \/ \E a \in post.media_assets : a.file_type = "video"

\* models.py 189-218, Post.validate_for_platform on a post row: a post
\* without account gets the single account violation.
Post_validate_for_platform(post, acct) ==
  IF post.social_account = NULL THEN <<"Aucun compte social associe">>
  ELSE validate_for_platform(post.content, acct.platform, has_image(post), has_video(post))

\* models.py 220-224: the rule set of a post; the empty dict without account.
Post_get_platform_rules(post, acct) ==
  IF post.social_account = NULL THEN <<>> ELSE get_platform_rules(acct.platform)

\* s contains t as a substring.
Contains(s, t) ==
  \E i \in 1..(Len(s) - Len(t) + 1) : SubSeq(s, i, i + Len(t) - 1) = t

\* Python's repr of a str: double quotes when it holds a single quote.
PyRepr(s) ==
  IF Contains(s, "'") THEN "\"" \o s \o "\"" ELSE "'" \o s \o "'"

RECURSIVE JoinRepr(_)
JoinRepr(seq) ==
  IF seq = <<>> THEN ""
  ELSE IF Len(seq) = 1 THEN PyRepr(seq[1])
  ELSE PyRepr(seq[1]) \o ", " \o JoinRepr(Tail(seq))

\* Python's str of a list of str.
ListRepr(seq) == "[" \o JoinRepr(seq) \o "]"

\* str(ValidationError(msg)) of django.core.exceptions: the repr of [msg].
StrValidationError(msg) == ListRepr(<<msg>>)

\* tasks._publish_to_platform: the placeholder adapter of the publish task.
publish_to_platform(platform, content, nMedia) ==
  IF platform = "instagram_story" /\ nMedia = 0
    THEN [success |-> FALSE, error |-> "Instagram Stories require at least one media file"]
  ELSE IF platform \in {"facebook_page", "facebook_group"} /\ content > 63206
    THEN [success |-> FALSE, error |-> "Facebook posts cannot exceed 63,206 characters"]
  ELSE IF platform = "twitter" /\ content > 280
    THEN [success |-> FALSE, error |-> "Twitter posts cannot exceed 280 characters"]
  ELSE [success |-> TRUE, error |-> "none"]

\* ------------------------------------------------------------------ state
NoPost ==
  [exists |-> FALSE, status |-> DRAFT, scheduled_time |-> NULL, celery_task_id |-> NULL,
   published_at |-> NULL, platform_post_id |-> NULL, error_message |-> "none",
   content |-> 0, image |-> FALSE, video |-> FALSE, media_assets |-> {},
   social_account |-> 1]

NoMsg == [id |-> NULL, post |-> NULL, force |-> FALSE, eta |-> NULL, retries |-> 0]

IdleWorker ==
  [pc |-> "idle", msg |-> NoMsg, content |-> 0, image |-> FALSE, platform |-> "none",
   posts_count |-> 0,
   exc |-> "none", result |-> [success |-> FALSE, error |-> "none"], rivalCalled |-> FALSE]

NoHist == [successes |-> 0, publishedAtWrites |-> 0, raised |-> 0]

\* No validation has been answered yet.  Otherwise: who answered ("by"), the
\* post and account rows it read, and the violation list and rule set it
\* returned.
NoValidation ==
  [calls |-> 0, by |-> "none", post |-> NoPost,
   account |-> [platform |-> "none", is_active |-> FALSE, posts_count |-> 0,
                last_used_at |-> NULL],
   errors |-> <<>>, rules |-> <<>>, media_urls |-> <<>>]

\* A call of UniversalPublisher.publish_post that is not running.
IdleCall ==
  [pc |-> "idle", post |-> NULL, platform |-> "none", posts_count |-> 0, result |-> "none",
   container |-> NULL, creation_id |-> NULL]

\* A call of UniversalPublisher.publish_post that ended by raising
\* PublicationError.
RaisedCall == [IdleCall EXCEPT !.result = "PublicationError"]

\* The state after construction: no post, one connected account of one of
\* the given platforms, nothing queued, nobody running.
InitFor(platforms, ids) ==
  /\ now = TickStep
  /\ posts = [p \in ids |-> NoPost]
  /\ \E pf \in platforms :
       account = [platform |-> pf, is_active |-> TRUE, posts_count |-> 0, last_used_at |-> NULL]
  /\ queue = {}
  /\ revoked = {}
  /\ nextTask = 1
  /\ dups = 0
  /\ workers = [w \in Workers |-> IdleWorker]
  /\ lock = [p \in ids |-> 0]
  /\ hist = [p \in ids |-> NoHist]
  /\ up = [c \in Workers |-> IdleCall]
  /\ validated = NoValidation

Init == InitFor(Platforms, PostIds)

\* The clock advances.
Tick ==
  /\ now < TickStep * MaxTicks
  /\ now' = now + TickStep
  /\ UNCHANGED <<posts, account, queue, revoked, nextTask, dups, workers, lock, hist, up, validated>>

\* ----------------------------------------------------------- Post.save
\* models.py 122-125: a draft with a scheduled_time and no task becomes SCHEDULED.
AutoStatus(post) ==
  IF post.scheduled_time # NULL /\ post.status = DRAFT /\ post.celery_task_id = NULL
    THEN SCHEDULED ELSE post.status

\* NeedsSchedule with the status test of the first block of Post.save (DRAFT)
\* repeated in the second block.
NeedsSchedule_Draft(post) ==
  post.status = DRAFT /\ post.scheduled_time # NULL /\ post.celery_task_id = NULL

\* models.py 130-132: after the save, a SCHEDULED post without task id is scheduled.
NeedsSchedule(post) ==
  post.status = SCHEDULED /\ post.scheduled_time # NULL /\ post.celery_task_id = NULL

\* models.py 135-148: the task is registered only for a time in the future.
Registers(post) ==
  LET saved == [post EXCEPT !.status = AutoStatus(post)]
  IN NeedsSchedule(saved) /\ saved.scheduled_time > now

\* The row as Post.save leaves it (in-memory object == row for the saved fields).
Post_save(post) ==
  LET saved == [post EXCEPT !.status = AutoStatus(post)]
  IN IF Registers(post) THEN [saved EXCEPT !.celery_task_id = nextTask] ELSE saved

ScheduledMsg(p, post) ==
  [id |-> nextTask, post |-> p, force |-> FALSE, eta |-> post.scheduled_time, retries |-> 0]

\* Post.save with its scheduling side effect, on the row of post p.
SaveAndSchedule(p, post) ==
  /\ posts' = [posts EXCEPT ![p] = Post_save(post)]
  /\ IF Registers(post)
       THEN /\ nextTask <= MaxTasks
            /\ queue' = queue \cup {ScheduledMsg(p, post)}
            /\ nextTask' = nextTask + 1
       ELSE UNCHANGED <<queue, nextTask>>

\* The times a client may ask for: the clock's later values and one beyond them.
SchedTimes == {TickStep * k : k \in 2..(MaxTicks + 1)}

\* ------------------------------------------------------------ API layer
\* PostCreateSerializer: field validation, validate(), create().
CreatePost(sched, content) ==
  /\ \E p \in DOMAIN posts : ~posts[p].exists
  /\ account.is_active
  /\ sched = NULL \/ sched > now
  /\ content >= 1 /\ content <= 10000
  /\ validate_for_platform(content, account.platform, FALSE, FALSE) = <<>>
  /\ LET p == CHOOSE q \in DOMAIN posts :
                ~posts[q].exists /\ \A r \in DOMAIN posts : ~posts[r].exists => q <= r
         post == [NoPost EXCEPT !.exists = TRUE,
                                !.status = IF sched # NULL THEN SCHEDULED ELSE DRAFT,
                                !.scheduled_time = sched,
                                !.content = content]
     IN SaveAndSchedule(p, post)
  /\ UNCHANGED <<now, account, revoked, dups, workers, lock, hist, up, validated>>

\* UpdatePost without the test that the new scheduled_time is in the future.
UpdatePost_AnyTime(p, hasSched, sched, hasContent, content) ==
  /\ posts[p].exists
  /\ lock[p] = 0
  /\ hasSched \/ hasContent
  /\ hasSched => posts[p].status # PUBLISHED
  /\ LET temp == [posts[p] EXCEPT
                    !.scheduled_time = IF hasSched THEN sched ELSE @,
                    !.content = IF hasContent THEN content ELSE @]
         post == [temp EXCEPT
                    !.status = IF hasSched
                                 THEN (IF sched # NULL THEN SCHEDULED ELSE DRAFT)
                                 ELSE @]
     IN /\ validate_for_platform(temp.content, account.platform, temp.image, FALSE) = <<>>
        /\ SaveAndSchedule(p, post)
  /\ UNCHANGED <<now, account, revoked, dups, workers, lock, hist, up, validated>>

\* PostUpdateSerializer: validate_scheduled_time, validate(), update().
UpdatePost(p, hasSched, sched, hasContent, content) ==
  /\ posts[p].exists
  /\ lock[p] = 0
  /\ hasSched \/ hasContent
  /\ hasSched => /\ posts[p].status # PUBLISHED
                 /\ sched = NULL \/ sched > now
  /\ LET temp == [posts[p] EXCEPT
                    !.scheduled_time = IF hasSched THEN sched ELSE @,
                    !.content = IF hasContent THEN content ELSE @]
         post == [temp EXCEPT
                    !.status = IF hasSched
                                 THEN (IF sched # NULL THEN SCHEDULED ELSE DRAFT)
                                 ELSE @]
     IN /\ validate_for_platform(temp.content, account.platform, temp.image, FALSE) = <<>>
        /\ SaveAndSchedule(p, post)
  /\ UNCHANGED <<now, account, revoked, dups, workers, lock, hist, up, validated>>

\* PostViewSet.publish_now: queue a forced publish task.
PublishNow(p) ==
  /\ posts[p].exists
  /\ posts[p].status # PUBLISHED
  /\ posts[p].status # PUBLISHING
  /\ validate_for_platform(posts[p].content, account.platform, posts[p].image, FALSE) = <<>>
  /\ nextTask <= MaxTasks
  /\ queue' = queue \cup
       {[id |-> nextTask, post |-> p, force |-> TRUE, eta |-> now, retries |-> 0]}
  /\ nextTask' = nextTask + 1
  /\ UNCHANGED <<now, posts, account, revoked, dups, workers, lock, hist, up, validated>>

\* PostViewSet.cancel_schedule.
CancelScheduleView(p) ==
  /\ posts[p].exists
  /\ lock[p] = 0
  /\ posts[p].status \in {SCHEDULED, PUBLISHING}
  /\ SaveAndSchedule(p, [posts[p] EXCEPT !.status = CANCELLED])
  /\ UNCHANGED <<now, account, revoked, dups, workers, lock, hist, up, validated>>

\* Post.cancel_schedule (model method).
PostCancelSchedule(p) ==
  /\ posts[p].exists
  /\ lock[p] = 0
  /\ posts[p].celery_task_id # NULL
  /\ revoked' = revoked \cup {posts[p].celery_task_id}
  /\ SaveAndSchedule(p, [posts[p] EXCEPT !.celery_task_id = NULL, !.status = DRAFT])
  /\ UNCHANGED <<now, account, dups, workers, lock, hist, up, validated>>

\* SocialAccountViewSet.toggle_active.
ToggleActive ==
  /\ account' = [account EXCEPT !.is_active = ~@]
  /\ UNCHANGED <<now, posts, queue, revoked, nextTask, dups, workers, lock, hist, up, validated>>

\* ------------------------------------------------------- task execution
Outstanding(m) == m \in queue /\ m.id \notin revoked

SetWorker(w, rec) == workers' = [workers EXCEPT ![w] = rec]

\* Workers running a non-forced invocation for the same post that are past
\* the guards of tasks.py 38-44 and have not finished.
Rivals(w, p) ==
  {v \in Workers : /\ v # w
                   /\ workers[v].pc \in {"save", "adapter"}
                   /\ workers[v].msg.post = p
                   /\ ~workers[v].msg.force}

\* GuardOutcome with a status test that lets a CANCELLED post through.
GuardOutcome_CancelledRuns(m) ==
  LET post == posts[m.post]
  IN IF ~post.exists THEN "not_found"
     ELSE IF ~m.force /\ post.status \notin {SCHEDULED, CANCELLED} THEN "skipped"
     ELSE IF ~account.is_active THEN "inactive"
     ELSE "run"

\* GuardOutcome with a status test that lets a FAILED post through.
GuardOutcome_FailedRuns(m) ==
  LET post == posts[m.post]
  IN IF ~post.exists THEN "not_found"
     ELSE IF ~m.force /\ post.status \notin {SCHEDULED, FAILED} THEN "skipped"
     ELSE IF ~account.is_active THEN "inactive"
     ELSE "run"

\* GuardOutcome that treats a missing post like any other error.
GuardOutcome_MissingRaises(m) ==
  LET post == posts[m.post]
  IN IF ~post.exists THEN "inactive"
     ELSE IF ~m.force /\ post.status # SCHEDULED THEN "skipped"
     ELSE IF ~account.is_active THEN "inactive"
     ELSE "run"

\* tasks.py 33-44: what the start of the task body decides for message m on
\* the committed rows: "not_found" (108-110, returns an error), "skipped"
\* (38-40, returns status skipped), "inactive" (43-44, raises) or "run".
GuardOutcome(m) ==
  LET post == posts[m.post]
  IN IF ~post.exists THEN "not_found"
     ELSE IF ~m.force /\ post.status # SCHEDULED THEN "skipped"
     ELSE IF ~account.is_active THEN "inactive"
     ELSE "run"

\* Celery hands a due, non-revoked message m to an idle worker (the first idle
\* one: workers are interchangeable); at-least-once, so the broker may keep
\* the message and deliver it again.  The task body starts (tasks.py 31-44):
\* it opens the transaction, reads the post and its account, and applies the
\* not-scheduled guard and the account guard.
DeliverMsg(w, m) ==
  LET post == posts[m.post]
      started == [IdleWorker EXCEPT !.msg = m]
      outcome == GuardOutcome(m)
  IN /\ workers[w].pc = "idle"
     /\ \A v \in Workers : workers[v].pc = "idle" => w <= v
     /\ Outstanding(m)
     /\ m.eta <= now
     /\ IF outcome = "not_found"
          THEN SetWorker(w, [IdleWorker EXCEPT
                 !.result = [success |-> FALSE, error |-> "Post not found"]])
        ELSE IF outcome = "skipped"
          THEN SetWorker(w, IdleWorker)
        ELSE IF outcome = "inactive"
          THEN SetWorker(w, [started EXCEPT
                 !.pc = "handler",
                 !.exc = StrValidationError("Social account is not active or missing")])
        ELSE SetWorker(w, [started EXCEPT
                 !.pc = "save", !.content = post.content, !.image = post.image,
                 !.platform = account.platform, !.posts_count = account.posts_count])
     /\ \/ queue' = queue \ {m} /\ dups' = dups
        \/ dups < MaxDuplicates /\ dups' = dups + 1 /\ queue' = queue
     /\ UNCHANGED <<now, posts, account, revoked, nextTask, lock, hist, up, validated>>

Deliver(w) == \E m \in queue : DeliverMsg(w, m)

\* tasks.py 46-73: status = PUBLISHING is saved inside the open transaction
\* (the UPDATE takes the row lock; the new status stays invisible to others
\* until commit; on a row deleted since it was read, save(update_fields=...)
\* raises DatabaseError), then platform validation (a violation raises, which rolls
\* the transaction back), media preparation and the adapter call.
TaskPublish(w) ==
  LET me == workers[w]
      p == me.msg.post
      errors == validate_for_platform(me.content, me.platform, me.image, FALSE)
      result == publish_to_platform(me.platform, me.content, 0)
  IN /\ me.pc = "save"
     /\ lock[p] = 0
     /\ IF ~posts[p].exists
          THEN /\ lock' = lock
               /\ SetWorker(w, [me EXCEPT
                    !.pc = "handler",
                    !.exc = "Save with update_fields did not affect any rows."])
               /\ hist' = hist
        ELSE IF errors # <<>>
          THEN /\ lock' = lock
               /\ SetWorker(w, [me EXCEPT
                    !.pc = "handler",
                    !.exc = StrValidationError("Post validation failed: " \o ListRepr(errors))])
               /\ hist' = hist
          ELSE /\ lock' = [lock EXCEPT ![p] = w]
               /\ workers' = [v \in Workers |->
                    IF v = w THEN [me EXCEPT !.pc = "adapter", !.result = result]
                    ELSE IF v \in Rivals(w, p) /\ ~me.msg.force
                      THEN [workers[v] EXCEPT !.rivalCalled = TRUE]
                    ELSE workers[v]]
               /\ hist' = [hist EXCEPT ![p].successes = IF result.success THEN @ + 1 ELSE @]
     /\ UNCHANGED <<now, posts, account, queue, revoked, nextTask, dups, up, validated>>

\* TaskFinish with the account usage also recorded when the adapter failed.
TaskFinish_FailureTouchesAccount(w) ==
  LET me == workers[w]
      p == me.msg.post
  IN /\ me.pc = "adapter"
     /\ IF me.result.success
          THEN /\ posts' = [posts EXCEPT ![p].status = PUBLISHED,
                                         ![p].published_at = now,
                                         ![p].platform_post_id = 1,
                                         ![p].error_message = "none"]
               /\ account' = [account EXCEPT !.posts_count = me.posts_count + 1,
                                             !.last_used_at = now]
               /\ hist' = [hist EXCEPT ![p].publishedAtWrites = @ + 1]
          ELSE /\ posts' = [posts EXCEPT ![p].status = FAILED,
                                         ![p].error_message = me.result.error]
               /\ account' = [account EXCEPT !.last_used_at = now]
               /\ hist' = hist
     /\ lock' = [lock EXCEPT ![p] = 0]
     /\ SetWorker(w, IdleWorker)
     /\ UNCHANGED <<now, queue, revoked, nextTask, dups, up, validated>>

\* tasks.py 75-106: the result is written and the transaction commits.
TaskFinish(w) ==
  LET me == workers[w]
      p == me.msg.post
  IN /\ me.pc = "adapter"
     /\ IF me.result.success
          THEN /\ posts' = [posts EXCEPT ![p].status = PUBLISHED,
                                         ![p].published_at = now,
                                         ![p].platform_post_id = 1,
                                         ![p].error_message = "none"]
               /\ account' = [account EXCEPT !.posts_count = me.posts_count + 1,
                                             !.last_used_at = now]
               /\ hist' = [hist EXCEPT ![p].publishedAtWrites = @ + 1]
          ELSE /\ posts' = [posts EXCEPT ![p].status = FAILED,
                                         ![p].error_message = me.result.error]
               /\ UNCHANGED <<account, hist>>
     /\ lock' = [lock EXCEPT ![p] = 0]
     /\ SetWorker(w, IdleWorker)
     /\ UNCHANGED <<now, queue, revoked, nextTask, dups, up, validated>>

RetryCountdown(retries) == 60 * (retries + 1)

\* TaskHandler that asks for the retry without marking the post FAILED.
TaskHandler_NoFailedWrite(w) ==
  LET me == workers[w]
      p == me.msg.post
  IN /\ me.pc = "handler"
     /\ lock[p] = 0
     /\ posts' = posts
     /\ queue' = IF me.msg.retries < max_retries
                   THEN queue \cup {[me.msg EXCEPT !.retries = @ + 1,
                                                   !.eta = now + RetryCountdown(me.msg.retries)]}
                   ELSE queue
     /\ SetWorker(w, IdleWorker)
     /\ UNCHANGED <<now, account, revoked, nextTask, dups, lock, hist, up, validated>>

\* TaskHandler that asks for a retry whatever the number of retries so far.
TaskHandler_NoRetryCap(w) ==
  LET me == workers[w]
      p == me.msg.post
  IN /\ me.pc = "handler"
     /\ lock[p] = 0
     /\ posts' = IF posts[p].exists
                   THEN [posts EXCEPT ![p].status = FAILED,
                                      ![p].error_message = "Publishing error: " \o me.exc]
                   ELSE posts
     /\ queue' = queue \cup {[me.msg EXCEPT !.retries = @ + 1,
                                            !.eta = now + RetryCountdown(me.msg.retries)]}
     /\ SetWorker(w, IdleWorker)
     /\ UNCHANGED <<now, account, revoked, nextTask, dups, lock, hist, up, validated>>

\* tasks.py 112-125: after the rollback the post is re-read and marked FAILED
\* (committed on its own), then the task asks for a retry.
TaskHandler(w) ==
  LET me == workers[w]
      p == me.msg.post
  IN /\ me.pc = "handler"
     /\ lock[p] = 0
     /\ posts' = IF posts[p].exists
                   THEN [posts EXCEPT ![p].status = FAILED,
                                      ![p].error_message = "Publishing error: " \o me.exc]
                   ELSE posts
     /\ queue' = IF me.msg.retries < max_retries
                   THEN queue \cup {[me.msg EXCEPT !.retries = @ + 1,
                                                   !.eta = now + RetryCountdown(me.msg.retries)]}
                   ELSE queue
     /\ SetWorker(w, IdleWorker)
     /\ UNCHANGED <<now, account, revoked, nextTask, dups, lock, hist, up, validated>>

\* models.py 153: revoke(..., terminate=True) kills a worker that is running
\* the revoked task; its open transaction is rolled back.
Terminate(w) ==
  LET p == workers[w].msg.post
  IN /\ workers[w].pc # "idle"
     /\ workers[w].msg.id \in revoked
     /\ lock' = [lock EXCEPT ![p] = IF @ = w THEN 0 ELSE @]
     /\ SetWorker(w, IdleWorker)
     /\ UNCHANGED <<now, posts, account, queue, revoked, nextTask, dups, hist, up, validated>>

Next ==
  \/ Tick
  \/ \E sched \in {NULL} \cup SchedTimes, content \in ContentLens : CreatePost(sched, content)
  \/ \E p \in PostIds, hasSched \in BOOLEAN, sched \in {NULL} \cup SchedTimes,
        hasContent \in BOOLEAN, content \in ContentLens :
       UpdatePost(p, hasSched, sched, hasContent, content)
  \/ \E p \in PostIds : PublishNow(p)
  \/ \E p \in PostIds : CancelScheduleView(p)
  \/ \E p \in PostIds : PostCancelSchedule(p)
  \/ ToggleActive
  \/ \E w \in Workers : Deliver(w)
  \/ \E w \in Workers : TaskPublish(w)
  \/ \E w \in Workers : TaskFinish(w)
  \/ \E w \in Workers : TaskHandler(w)
  \/ \E w \in Workers : Terminate(w)

Spec == Init /\ [][Next]_vars

\* ------------------------------------------- several posts of one account
\* The publication pipeline with one post more than Spec has, without the
\* edit and cancel operations: creation, publish_now and the publish task.
MorePostIds == 1..(MaxPosts + 1)

InitAccount == InitFor(Platforms, MorePostIds)

NextAccount ==
  \/ Tick
  \/ \E sched \in {NULL} \cup SchedTimes, content \in ContentLens : CreatePost(sched, content)
  \/ \E p \in MorePostIds : PublishNow(p)
  \/ ToggleActive
  \/ \E w \in Workers : Deliver(w)
  \/ \E w \in Workers : TaskPublish(w)
  \/ \E w \in Workers : TaskFinish(w)
  \/ \E w \in Workers : TaskHandler(w)

SpecAccount == InitAccount /\ [][NextAccount]_vars

\* ------------------------------------------------- UniversalPublisher
\* publisher.py 30-34: the platforms the publisher has a service for.
platform_services == {"facebook_page", "instagram_feed", "instagram_story"}

PublisherPlatforms == {"facebook_page", "twitter_post"}

\* publisher.py 36-63: the errors found before publication (the account is
\* connected, so it has an access token).
validate_post_for_publication(post) ==
  IF post.social_account = NULL THEN <<"Aucun compte social associe">>
  ELSE (IF ~account.is_active THEN <<"Le compte social n'est pas actif">> ELSE <<>>)
       \o Post_validate_for_platform(post, account)
       \o (IF /\ account.platform \in {"instagram_feed", "instagram_story"}
              /\ ~\E a \in post.media_assets : a.file_type = "image"
              /\ ~post.image
             THEN <<"Instagram necessite au moins une image">> ELSE <<>>)

\* publisher.py 76-87: a caller hands the post it has just loaded to
\* publish_post; the status test and the validation pass (otherwise
\* PublicationError is raised with nothing written) and status = PUBLISHING
\* is saved.  No transaction is open: every save commits on its own.
\* (The number of successful publications of a post is capped at MaxTasks.)
UPStart(c, p, force) ==
  /\ up[c].pc = "idle"
  /\ \A d \in Workers : up[d].pc = "idle" => c <= d
  /\ posts[p].exists
  /\ lock[p] = 0
  /\ hist[p].successes < MaxTasks
  /\ force \/ posts[p].status = SCHEDULED
  /\ validate_post_for_publication(posts[p]) = <<>>
  /\ posts' = [posts EXCEPT ![p].status = PUBLISHING]
  /\ up' = [up EXCEPT ![c] = [IdleCall EXCEPT !.pc = "publishing", !.post = p,
                                              !.platform = account.platform,
                                              !.posts_count = account.posts_count]]
  /\ UNCHANGED <<now, account, queue, revoked, nextTask, dups, workers, lock, hist, validated>>

RECURSIVE Repeat(_, _)
Repeat(s, n) ==
  IF n = 0 THEN ""
  ELSE IF n % 2 = 0 THEN LET h == Repeat(s, n \div 2) IN h \o h
  ELSE s \o Repeat(s, n - 1)

\* The Graph API's message for an expired credential (OAuthException, code
\* 190), as facebook_service.py 139-142 re-wraps it.
AuthErrorText == "Erreur inattendue: Error validating access token: Session has expired"

\* facebook_service.py 126-142 and 236-257: the text of a
\* FacebookGraphAPIError comes from the remote response (its error message,
\* or the whole response text when it is not JSON) and is re-wrapped by
\* publish_post: a permission error, an expired credential and a response
\* longer than MaxErrorLen.
GraphErrorTexts ==
  {"Erreur inattendue: (#200) Permissions error",
   AuthErrorText,
   "Erreur inattendue: Reponse invalide de l'API: " \o Repeat("<html>", MaxErrorLen)}

\* _mark_post_failed without the cut of the message.
mark_post_failed_NoLimit(msg) == msg

\* publisher.py 202: error_message[:1000].
mark_post_failed(msg) ==
  IF Len(msg) > MaxErrorLen THEN SubSeq(msg, 1, MaxErrorLen) ELSE msg

\* order_by('order'): the links of S by increasing order.
RECURSIVE OrderBy(_)
OrderBy(S) ==
  IF S = {} THEN <<>>
  ELSE LET first == CHOOSE a \in S : \A b \in S : a.order <= b.order
       IN <<first>> \o OrderBy(S \ {first})

Urls(links) == [i \in 1..Len(links) |-> links[i].url]

\* publisher.py 177-197: the URLs of the linked image assets by order; the
\* legacy image, or on a Facebook page the legacy video, when that list is
\* empty.
prepare_media_urls(post, platform) ==
  LET media_urls == Urls(OrderBy({a \in post.media_assets : a.file_type = "image"}))
  IN IF media_urls # <<>> THEN media_urls
     ELSE IF post.image THEN <<"/posts/images/legacy.jpg">>
     ELSE IF post.video /\ platform = "facebook_page" THEN <<"/posts/videos/legacy.mp4">>
     ELSE <<>>

\* tasks.py 60-70: the media files of the task: every linked asset by order.
task_media_files(post) == Urls(OrderBy(post.media_assets))

InstagramPlatforms == {"instagram_feed", "instagram_story"}

\* The ids the Graph API may give to a media container.
ContainerIds == {17901, 17902}

\* facebook_service.py 236-257: the Graph API's message when a call of the
\* Instagram publish fails (InstagramService calls _publish_instagram_post
\* directly, so the message is not re-wrapped).
InstagramErrorTexts == {"(#9007) The media is not ready to be published"}

\* publisher.py 89-102 and 129-141: an unsupported platform raises
\* PublicationError, and so does an Instagram publish without media URL
\* (153-156, 165-168); it is re-raised as it is (the post stays PUBLISHING).
\* Otherwise the platform service is called.  Facebook page: it returns a
\* result, or raises FacebookGraphAPIError and the post is marked FAILED.
\* Instagram (facebook_service.py 169-203): the first call creates the media
\* container and returns its id, or raises likewise.
UPPublish(c) ==
  LET me == up[c]
      p == me.post
      media_urls == prepare_media_urls(posts[p], me.platform)
  IN /\ me.pc = "publishing"
     /\ IF \/ me.platform \notin platform_services
           \/ me.platform \in InstagramPlatforms /\ media_urls = <<>>
          THEN /\ up' = [up EXCEPT ![c] = RaisedCall]
               /\ UNCHANGED <<posts, hist>>
        ELSE IF me.platform \in InstagramPlatforms
          THEN \/ /\ \E id \in ContainerIds :
                       up' = [up EXCEPT ![c].pc = "container", ![c].container = id]
                  /\ UNCHANGED <<posts, hist>>
               \/ /\ lock[p] = 0
                  /\ \E text \in InstagramErrorTexts :
                       posts' = [posts EXCEPT
                         ![p].status = FAILED,
                         ![p].error_message = mark_post_failed("Erreur Facebook API: " \o text)]
                  /\ up' = [up EXCEPT ![c] = RaisedCall]
                  /\ hist' = hist
        ELSE \/ /\ up' = [up EXCEPT ![c].pc = "adapter_ok", ![c].result = "ok"]
                /\ hist' = [hist EXCEPT ![p].successes = @ + 1]
                /\ posts' = posts
             \/ /\ lock[p] = 0
                /\ \E text \in GraphErrorTexts :
                     posts' = [posts EXCEPT
                       ![p].status = FAILED,
                       ![p].error_message = mark_post_failed("Erreur Facebook API: " \o text)]
                /\ up' = [up EXCEPT ![c] = RaisedCall]
                /\ hist' = hist
     /\ UNCHANGED <<now, account, queue, revoked, nextTask, dups, workers, lock, validated>>

\* UPMediaPublish that publishes any container, not the one just created.
UPMediaPublish_AnyContainer(c) ==
  LET me == up[c]
      p == me.post
  IN /\ me.pc = "container"
     /\ \/ /\ \E id \in ContainerIds :
               up' = [up EXCEPT ![c].pc = "adapter_ok", ![c].result = "ok",
                                ![c].creation_id = id]
          /\ hist' = [hist EXCEPT ![p].successes = @ + 1]
          /\ posts' = posts
        \/ /\ lock[p] = 0
          /\ \E text \in InstagramErrorTexts :
               posts' = [posts EXCEPT
                 ![p].status = FAILED,
                 ![p].error_message = mark_post_failed("Erreur Facebook API: " \o text)]
          /\ up' = [up EXCEPT ![c] = [RaisedCall EXCEPT !.container = me.container]]
          /\ hist' = hist
     /\ UNCHANGED <<now, account, queue, revoked, nextTask, dups, workers, lock, validated>>

\* facebook_service.py 180-181 and 205-222: the second call of the Instagram
\* publish, media_publish with creation_id = the container id of the first
\* call: it returns the result, or raises FacebookGraphAPIError and the post
\* is marked FAILED (publisher.py 132-136).
UPMediaPublish(c) ==
  LET me == up[c]
      p == me.post
  IN /\ me.pc = "container"
     /\ \/ /\ up' = [up EXCEPT ![c].pc = "adapter_ok", ![c].result = "ok",
                                ![c].creation_id = me.container]
          /\ hist' = [hist EXCEPT ![p].successes = @ + 1]
          /\ posts' = posts
        \/ /\ lock[p] = 0
          /\ \E text \in InstagramErrorTexts :
               posts' = [posts EXCEPT
                 ![p].status = FAILED,
                 ![p].error_message = mark_post_failed("Erreur Facebook API: " \o text)]
          /\ up' = [up EXCEPT ![c] = [RaisedCall EXCEPT !.container = me.container]]
          /\ hist' = hist
     /\ UNCHANGED <<now, account, queue, revoked, nextTask, dups, workers, lock, validated>>

\* publisher.py 104-112: the post is saved as PUBLISHED (committed).
UPSavePost(c) ==
  LET me == up[c]
      p == me.post
  IN /\ me.pc = "adapter_ok"
     /\ lock[p] = 0
     /\ posts' = [posts EXCEPT ![p].status = PUBLISHED,
                               ![p].published_at = now,
                               ![p].platform_post_id = 1,
                               ![p].error_message = "none"]
     /\ hist' = [hist EXCEPT ![p].publishedAtWrites = @ + 1]
     /\ up' = [up EXCEPT ![c].pc = "post_saved"]
     /\ UNCHANGED <<now, account, queue, revoked, nextTask, dups, workers, lock, validated>>

\* publisher.py 114-117: the account counters are saved (committed).
UPSaveAccount(c) ==
  LET me == up[c]
  IN /\ me.pc = "post_saved"
     /\ account' = [account EXCEPT !.posts_count = me.posts_count + 1,
                                   !.last_used_at = now]
     /\ up' = [up EXCEPT ![c] = IdleCall]
     /\ UNCHANGED <<now, posts, queue, revoked, nextTask, dups, workers, lock, hist, validated>>

InitPublisher == InitFor(PublisherPlatforms, PostIds)

NextPublisher ==
  \/ Tick
  \/ \E sched \in {NULL} \cup SchedTimes, content \in ContentLens : CreatePost(sched, content)
  \/ \E p \in PostIds, hasSched \in BOOLEAN, sched \in {NULL} \cup SchedTimes,
        hasContent \in BOOLEAN, content \in ContentLens :
       UpdatePost(p, hasSched, sched, hasContent, content)
  \/ \E p \in PostIds : CancelScheduleView(p)
  \/ ToggleActive
  \/ \E c \in Workers, p \in PostIds, force \in BOOLEAN : UPStart(c, p, force)
  \/ \E c \in Workers : UPPublish(c)
  \/ \E c \in Workers : UPSavePost(c)
  \/ \E c \in Workers : UPSaveAccount(c)

SpecPublisher == InitPublisher /\ [][NextPublisher]_vars

\* --------------------------------------- account edits and legacy images
AllPlatforms == {"facebook_page", "twitter_post", "instagram_story"}

\* Content lengths on either side of the limits 280 and 2200.
LongContentLens == {300, 2500}

\* SocialAccountViewSet (ModelViewSet) update with SocialAccountSerializer:
\* 'platform' is a writable field.
ChangePlatform(pf) ==
  /\ pf # account.platform
  /\ account' = [account EXCEPT !.platform = pf]
  /\ UNCHANGED <<now, posts, queue, revoked, nextTask, dups, workers, lock, hist, up, validated>>

\* PostUpdateSerializer with only 'image' in the data: validate() on the
\* instance with the image set, then update() saves it.
UpdatePostImage(p) ==
  /\ posts[p].exists
  /\ lock[p] = 0
  /\ ~posts[p].image
  /\ validate_for_platform(posts[p].content, account.platform, TRUE, FALSE) = <<>>
  /\ SaveAndSchedule(p, [posts[p] EXCEPT !.image = TRUE])
  /\ UNCHANGED <<now, account, revoked, dups, workers, lock, hist, up, validated>>

InitPlatform == InitFor(AllPlatforms, PostIds)

NextPlatform ==
  \/ Tick
  \/ \E sched \in {NULL} \cup SchedTimes, content \in LongContentLens :
       CreatePost(sched, content)
  \/ \E p \in PostIds : UpdatePostImage(p)
  \/ \E p \in PostIds : PublishNow(p)
  \/ \E pf \in AllPlatforms : ChangePlatform(pf)
  \/ \E w \in Workers : Deliver(w)
  \/ \E w \in Workers : TaskPublish(w)
  \/ \E w \in Workers : TaskFinish(w)
  \/ \E w \in Workers : TaskHandler(w)

SpecPlatform == InitPlatform /\ [][NextPlatform]_vars

\* ------------------------------------------------ retries of the task
\* The clock, followed long enough for the retries of a task to come due.
RetryHorizon == TickStep * (MaxTicks + max_retries)

TickRetry ==
  /\ now < RetryHorizon
  /\ now' = now + TickStep
  /\ UNCHANGED <<posts, account, queue, revoked, nextTask, dups, workers, lock, hist, up, validated>>

\* tasks.py 46-73 and 112: the run saves PUBLISHING, passes validation, and
\* the adapter call raises (a transient error of the platform, at most
\* MaxTransient times per post); the exception leaves the atomic block, which
\* rolls the transaction back, and reaches the handler.
TaskAdapterRaises(w) ==
  LET me == workers[w]
      p == me.msg.post
  IN /\ me.pc = "save"
     /\ lock[p] = 0
     /\ validate_for_platform(me.content, me.platform, me.image, FALSE) = <<>>
     /\ hist[p].raised < MaxTransient
     /\ SetWorker(w, [me EXCEPT !.pc = "handler", !.exc = "TransientNetworkError"])
     /\ hist' = [hist EXCEPT ![p].raised = @ + 1]
     /\ UNCHANGED <<now, posts, account, queue, revoked, nextTask, dups, lock, up, validated>>

NextRetry ==
  \/ TickRetry
  \/ \E sched \in SchedTimes, content \in ContentLens : CreatePost(sched, content)
  \/ \E w \in Workers : Deliver(w)
  \/ \E w \in Workers : TaskPublish(w)
  \/ \E w \in Workers : TaskAdapterRaises(w)
  \/ \E w \in Workers : TaskFinish(w)
  \/ \E w \in Workers : TaskHandler(w)

SpecRetry == Init /\ [][NextRetry]_vars

\* ------------------------------------------- an adapter that always fails
\* The clock jumps to the next eta of a queued message (retries are queued
\* with eta = now + countdown).
AdvanceToEta ==
  /\ \E m \in queue : m.eta > now
  /\ now' = CHOOSE t \in {m.eta : m \in queue} :
              t > now /\ \A m \in queue : m.eta > now => t <= m.eta
  /\ UNCHANGED <<posts, account, queue, revoked, nextTask, dups, workers, lock, hist, up, validated>>

\* TaskAdapterRaises without the cap on the number of transient errors: the
\* adapter call of every attempt raises.
TaskAdapterAlwaysRaises(w) ==
  LET me == workers[w]
      p == me.msg.post
  IN /\ me.pc = "save"
     /\ lock[p] = 0
     /\ validate_for_platform(me.content, me.platform, me.image, FALSE) = <<>>
     /\ SetWorker(w, [me EXCEPT !.pc = "handler", !.exc = "TransientNetworkError"])
     /\ hist' = [hist EXCEPT ![p].raised = @ + 1]
     /\ UNCHANGED <<now, posts, account, queue, revoked, nextTask, dups, lock, up, validated>>

NextExhaust ==
  \/ AdvanceToEta
  \/ \E sched \in {NULL} \cup SchedTimes, content \in ContentLens : CreatePost(sched, content)
  \/ \E p \in PostIds : PublishNow(p)
  \/ \E w \in Workers : Deliver(w)
  \/ \E w \in Workers : TaskAdapterAlwaysRaises(w)
  \/ \E w \in Workers : TaskHandler(w)

SpecExhaust == Init /\ [][NextExhaust]_vars

\* --------------------------------------- every writer of error_message
\* publish_now runs of the task (the account may be moved to Instagram
\* stories and posts may gain a legacy image, so that validation and the
\* placeholder adapter can fail) next to one caller of
\* UniversalPublisher.publish_post.
NextMessages ==
  \/ \E content \in LongContentLens : CreatePost(NULL, content)
  \/ \E p \in PostIds : UpdatePostImage(p)
  \/ \E p \in PostIds : PublishNow(p)
  \/ ChangePlatform("instagram_story")
  \/ \E w \in Workers : Deliver(w)
  \/ \E w \in Workers : TaskPublish(w)
  \/ \E w \in Workers : TaskFinish(w)
  \/ \E w \in Workers : TaskHandler(w)
  \/ \E p \in PostIds, force \in BOOLEAN : UPStart(1, p, force)
  \/ UPPublish(1)
  \/ UPMediaPublish(1)
  \/ UPSavePost(1)
  \/ UPSaveAccount(1)

SpecMessages == InitPublisher /\ [][NextMessages]_vars

\* ------------------------------------------------- validation on its own
\* models.py 10-21: the platform kinds.
SocialPlatform ==
  {"facebook_page", "facebook_group", "instagram_feed", "instagram_story",
   "instagram_reels", "twitter_post", "linkedin_personal", "linkedin_company",
   "tiktok_post", "youtube_short"}

\* The kinds with an entry in rules_map (models.py 226-269).
RulesMapKinds ==
  {"facebook_page", "instagram_feed", "instagram_story", "twitter_post",
   "linkedin_personal", "tiktok_post"}

\* Content lengths on both sides of every max_length.
ValidationContentLens == {280, 281, 1000, 1001, 2200, 2201, 3000, 3001, 63206, 63207}

\* models.py 277-300 (PostMediaAsset): the links a post may have, a video
\* ahead of two images.
Attachments ==
  {[order |-> 0, file_type |-> "video", url |-> "/media/clip.mp4"],
   [order |-> 1, file_type |-> "image", url |-> "/media/first.jpg"],
   [order |-> 2, file_type |-> "image", url |-> "/media/second.jpg"]}

\* Any one post (with or without account, legacy files and linked assets)
\* and any one account (any kind, active or not).
InitValidation ==
  /\ now = TickStep
  /\ \E content \in ValidationContentLens, image \in BOOLEAN, video \in BOOLEAN,
        assets \in SUBSET Attachments, sa \in {NULL, 1} :
       posts = [p \in PostIds |->
                  [NoPost EXCEPT !.exists = TRUE, !.content = content, !.image = image,
                                 !.video = video, !.media_assets = assets,
                                 !.social_account = sa]]
  /\ \E pf \in SocialPlatform, active \in BOOLEAN :
       account = [platform |-> pf, is_active |-> active, posts_count |-> 0,
                  last_used_at |-> NULL]
  /\ queue = {}
  /\ revoked = {}
  /\ nextTask = 1
  /\ dups = 0
  /\ workers = [w \in Workers |-> IdleWorker]
  /\ lock = [p \in PostIds |-> 0]
  /\ hist = [p \in PostIds |-> NoHist]
  /\ up = [c \in Workers |-> IdleCall]
  /\ validated = NoValidation

Answer(by, p, errors, rules) ==
  [calls |-> validated.calls + 1, by |-> by, post |-> posts[p], account |-> account,
   errors |-> errors, rules |-> rules, media_urls |-> <<>>]

\* validate_post that also stores the length of the list on the post.
ValidatePostView_Saves(p) ==
  LET errors == Post_validate_for_platform(posts[p], account)
  IN /\ posts[p].exists
     /\ validated.calls < MaxCalls
     /\ validated' = Answer("validate_post", p, errors, Post_get_platform_rules(posts[p], account))
     /\ posts' = [posts EXCEPT ![p].platform_post_id = Len(errors)]
     /\ UNCHANGED <<now, account, queue, revoked, nextTask, dups, workers, lock, hist, up>>

\* views.py 163-181: GET validate_post answers with the violation list and
\* the rule set of the post.
ValidatePostView(p) ==
  /\ posts[p].exists
  /\ validated.calls < MaxCalls
  /\ validated' = Answer("validate_post", p, Post_validate_for_platform(posts[p], account),
                         Post_get_platform_rules(posts[p], account))
  /\ UNCHANGED <<now, posts, account, queue, revoked, nextTask, dups, workers, lock, hist, up>>

\* publisher.py 36-63: the list UniversalPublisher.publish_post acts on.
UPValidate(p) ==
  /\ posts[p].exists
  /\ validated.calls < MaxCalls
  /\ validated' = Answer("publisher", p, validate_post_for_publication(posts[p]),
                         Post_get_platform_rules(posts[p], account))
  /\ UNCHANGED <<now, posts, account, queue, revoked, nextTask, dups, workers, lock, hist, up>>

\* tasks.py 42-58: what the task acts on: the account test raises a
\* ValidationError of its own, then the violation list of the post.
task_validation(post, acct) ==
  IF post.social_account = NULL \/ ~acct.is_active
    THEN <<"Social account is not active or missing">>
  ELSE Post_validate_for_platform(post, acct)

TaskValidate(p) ==
  /\ posts[p].exists
  /\ validated.calls < MaxCalls
  /\ validated' = Answer("task", p, task_validation(posts[p], account),
                         Post_get_platform_rules(posts[p], account))
  /\ UNCHANGED <<now, posts, account, queue, revoked, nextTask, dups, workers, lock, hist, up>>

NextValidation ==
  \/ \E p \in PostIds : ValidatePostView(p)
  \/ \E p \in PostIds : UPValidate(p)
  \/ \E p \in PostIds : TaskValidate(p)

SpecValidation == InitValidation /\ [][NextValidation]_vars

\* ------------------------------------------------------ deleted posts
\* views.py 16 (ModelViewSet.destroy): the row is deleted; its tasks are not
\* revoked.  The DELETE waits for a transaction that holds the row.
DeletePost(p) ==
  /\ posts[p].exists
  /\ lock[p] = 0
  /\ posts' = [posts EXCEPT ![p] = NoPost]
  /\ UNCHANGED <<now, account, queue, revoked, nextTask, dups, workers, lock, hist, up,
                 validated>>

\* Every post exists as a draft of 100 characters (ids are not reused, so
\* posts are not created after a deletion).
InitDelete ==
  /\ now = TickStep
  /\ posts = [p \in PostIds |-> [NoPost EXCEPT !.exists = TRUE, !.content = 100]]
  /\ account = [platform |-> "twitter_post", is_active |-> TRUE, posts_count |-> 0,
                last_used_at |-> NULL]
  /\ queue = {}
  /\ revoked = {}
  /\ nextTask = 1
  /\ dups = 0
  /\ workers = [w \in Workers |-> IdleWorker]
  /\ lock = [p \in PostIds |-> 0]
  /\ hist = [p \in PostIds |-> NoHist]
  /\ up = [c \in Workers |-> IdleCall]
  /\ validated = NoValidation

NextDelete ==
  \/ Tick
  \/ \E p \in PostIds, sched \in SchedTimes : UpdatePost(p, TRUE, sched, FALSE, 100)
  \/ \E p \in PostIds : PublishNow(p)
  \/ \E p \in PostIds : DeletePost(p)
  \/ \E w \in Workers : Deliver(w)
  \/ \E w \in Workers : TaskPublish(w)
  \/ \E w \in Workers : TaskFinish(w)
  \/ \E w \in Workers : TaskHandler(w)

SpecDelete == InitDelete /\ [][NextDelete]_vars

\* ------------------------------------------------------ media URLs
MediaAnswer(by, p, urls) ==
  [calls |-> validated.calls + 1, by |-> by, post |-> posts[p], account |-> account,
   errors |-> <<>>, rules |-> <<>>, media_urls |-> urls]

\* publisher.py 98: media_urls = self._prepare_media_urls(post), handed to
\* the platform's publish method.
UPPrepareMedia(p) ==
  /\ posts[p].exists
  /\ posts[p].social_account # NULL
  /\ validated.calls < MaxCalls
  /\ validated' = MediaAnswer("publisher", p, prepare_media_urls(posts[p], account.platform))
  /\ UNCHANGED <<now, posts, account, queue, revoked, nextTask, dups, workers, lock, hist, up>>

\* tasks.py 60-73: media_files, handed to _publish_to_platform.
TaskPrepareMedia(p) ==
  /\ posts[p].exists
  /\ posts[p].social_account # NULL
  /\ validated.calls < MaxCalls
  /\ validated' = MediaAnswer("task", p, task_media_files(posts[p]))
  /\ UNCHANGED <<now, posts, account, queue, revoked, nextTask, dups, workers, lock, hist, up>>

NextMedia ==
  \/ \E p \in PostIds : UPPrepareMedia(p)
  \/ \E p \in PostIds : TaskPrepareMedia(p)

SpecMedia == InitValidation /\ [][NextMedia]_vars

\* ---------------------------------------------------------------- claims
OutstandingFor(p) == {m.id : m \in {x \in queue : x.post = p /\ x.id \notin revoked}}

\* C1: of two concurrent non-forced invocations of the publish task for the
\* same SCHEDULED post, only one calls the adapter: no worker calls the
\* adapter after a concurrent invocation that also passed the status guard
\* has called it.
C1_OnlyOneConcurrentPublish ==
  \A w \in Workers :
    ~(workers[w].pc = "adapter" /\ ~workers[w].msg.force /\ workers[w].rivalCalled)

\* C2: while the adapter call of a publish attempt is in progress, the
\* committed status of the post is PUBLISHING.
C2_PublishingCommittedBeforeAdapter ==
  \A w \in Workers :
    workers[w].pc = "adapter" => posts[workers[w].msg.post].status = PUBLISHING

\* C3: a post is published successfully by the adapter at most once and its
\* published_at is written at most once.
C3_PublishedAtMostOnce ==
  \A p \in PostIds : hist[p].successes <= 1 /\ hist[p].publishedAtWrites <= 1

\* C4: once a post is PUBLISHED or CANCELLED, no step changes its status,
\* scheduled_time or error_message.
C4_TerminalStatesFrozen ==
  [][\A p \in PostIds :
       (posts[p].exists /\ posts[p].status \in {PUBLISHED, CANCELLED})
         => /\ posts'[p].status = posts[p].status
            /\ posts'[p].scheduled_time = posts[p].scheduled_time
            /\ posts'[p].error_message = posts[p].error_message]_vars

\* C5: celery_task_id is non-null if and only if the status is SCHEDULED.
C5_TaskIdIffScheduled ==
  \A p \in PostIds :
    posts[p].exists => (posts[p].celery_task_id # NULL <=> posts[p].status = SCHEDULED)

\* C6: published_at is non-null if and only if the status is PUBLISHED.
C6_PublishedAtIffPublished ==
  \A p \in PostIds :
    posts[p].exists => (posts[p].published_at # NULL <=> posts[p].status = PUBLISHED)

\* C7: a post never has two outstanding (queued, not revoked) publish tasks.
C7_AtMostOneOutstandingTask ==
  \A p \in PostIds : Cardinality(OutstandingFor(p)) <= 1

\* C8: a step that creates a post with a scheduled_time in the future leaves
\* it SCHEDULED with a non-null celery_task_id.
C8_CreatedScheduledHasTask ==
  [][\A p \in PostIds :
       (~posts[p].exists /\ posts'[p].exists /\ posts'[p].scheduled_time > now)
         => /\ posts'[p].status = SCHEDULED
            /\ posts'[p].celery_task_id # NULL]_vars

\* A freshly created scheduled post: SCHEDULED, with the id of an outstanding
\* task whose eta is its scheduled_time, not yet delivered or published.
C8_Witness ==
  \E p \in PostIds :
    /\ posts[p].exists
    /\ posts[p].scheduled_time > now
    /\ posts[p].status = SCHEDULED
    /\ posts[p].celery_task_id # NULL
    /\ \E m \in queue : /\ m.id = posts[p].celery_task_id
                        /\ m.post = p
                        /\ m.eta = posts[p].scheduled_time
                        /\ m.retries = 0

\* C9: the cancel_schedule operation on a SCHEDULED post leaves it DRAFT or
\* CANCELLED with a null celery_task_id.
C9_CancelClearsTaskId ==
  [][\A p \in PostIds :
       (CancelScheduleView(p) /\ posts[p].status = SCHEDULED)
         => /\ posts'[p].status \in {DRAFT, CANCELLED}
            /\ posts'[p].celery_task_id = NULL]_vars

\* C10: the cancel_schedule operation on a SCHEDULED post requests the
\* revocation of the post's outstanding task.
C10_CancelRevokesTask ==
  [][\A p \in PostIds :
       (CancelScheduleView(p) /\ posts[p].status = SCHEDULED
          /\ posts[p].celery_task_id # NULL)
         => posts[p].celery_task_id \in revoked']_vars
C13_FutureScheduleIsDeferred ==
  [][\A w \in Workers : \A m \in queue :
       (DeliverMsg(w, m) /\ ~m.force
          /\ posts[m.post].exists /\ posts[m.post].status = SCHEDULED
          /\ posts[m.post].scheduled_time > now)
         => /\ workers'[w].pc = "idle"
            /\ posts' = posts]_vars
\* C14: the step that ends a successful publish leaves the post PUBLISHED
\* with published_at set, a platform_post_id and no error_message, and the
\* account's posts_count is one more than before the step.
C14_SuccessfulPublishEffects ==
  [][\A w \in Workers :
       (TaskFinish(w) /\ workers[w].result.success)
         => LET p == workers[w].msg.post
            IN /\ posts'[p].status = PUBLISHED
               /\ posts'[p].published_at # NULL
               /\ posts'[p].platform_post_id # NULL
               /\ posts'[p].error_message = "none"
               /\ account'.posts_count = account.posts_count + 1]_vars

\* C16: when no post was published more than once, the account's posts_count
\* is the number of posts whose publish succeeded.
C16_NoLostIncrement ==
  (\A p \in DOMAIN posts : hist[p].publishedAtWrites <= 1)
    => account.posts_count =
         Cardinality({p \in DOMAIN posts : hist[p].publishedAtWrites = 1})
\* C15: the post update and the account counter update of a successful
\* publish are one atomic step: in every state a PUBLISHED post's account
\* already carries the counter update of that publication (posts_count
\* counted, last_used_at not older than the post's published_at).
C15_PublishedWithCounters ==
  \A p \in DOMAIN posts :
    (posts[p].exists /\ posts[p].status = PUBLISHED)
      => /\ account.posts_count >= 1
         /\ account.last_used_at >= posts[p].published_at
\* C17: a step changes the account's posts_count or last_used_at only if it
\* is the end of a publish run whose adapter call succeeded and which leaves
\* its post PUBLISHED; every other step (skipped, failed validation, failed
\* adapter call, retry request) leaves both unchanged.
C17_CountersOnlyOnPublished ==
  [][(account'.posts_count # account.posts_count
        \/ account'.last_used_at # account.last_used_at)
       => \E w \in Workers :
            /\ TaskFinish(w)
            /\ workers[w].result.success
            /\ posts'[workers[w].msg.post].status = PUBLISHED]_vars

\* The account after exactly one counted publication: a PUBLISHED post that
\* was stamped in the same step as the account.
C17_Witness ==
  /\ account.posts_count = 1
  /\ account.last_used_at # NULL
  /\ \E p \in PostIds :
       /\ posts[p].status = PUBLISHED
       /\ posts[p].published_at = account.last_used_at
       /\ hist[p].publishedAtWrites = 1
C19_TerminalFailureNoRetry ==
  [][\A w \in Workers :
       LET me == workers[w]
           p == me.msg.post
       IN (TaskHandler(w) /\ posts[p].exists
             /\ (Contains(me.exc, "Social account is not active or missing")
                   \/ Contains(me.exc, "Post validation failed")))
            => /\ posts'[p].status = FAILED
               /\ queue' = queue]_vars
C23_AuthErrorDeactivatesAccount ==
  [][\A p \in PostIds :
       (/\ posts'[p].error_message # posts[p].error_message
        /\ posts'[p].status = FAILED
        /\ Contains(posts'[p].error_message, AuthErrorText))
       => ~account'.is_active]_vars

\* C24: a publish attempt on a platform without a registered adapter is
\* reported on the post: when the call of UniversalPublisher.publish_post
\* ends, the post is FAILED with an error message recorded.
C24_UnsupportedPlatformFails ==
  [][\A c \in Workers :
       (/\ up[c].pc = "publishing"
        /\ up'[c].pc = "idle"
        /\ up[c].platform \notin platform_services)
       => /\ posts'[up[c].post].status = FAILED
          /\ posts'[up[c].post].error_message # "none"]_vars

\* C25: an update that gives a FAILED post a new scheduled_time in the future
\* leaves it SCHEDULED with its error_message cleared.
C25_RescheduleClearsError ==
  [][\A p \in PostIds :
       (/\ posts[p].status = FAILED
        /\ posts'[p].scheduled_time # posts[p].scheduled_time
        /\ posts'[p].scheduled_time > now)
       => /\ posts'[p].status = SCHEDULED
          /\ posts'[p].error_message = "none"]_vars

\* The kind of a violation message: 1 content length, 2 image, 3 video,
\* 0 anything else.
ViolationRank(m) ==
  IF Contains(m, "Contenu trop long (") THEN 1
  ELSE IF Contains(m, "Une image est requise") THEN 2
  ELSE IF Contains(m, "Une video est requise") THEN 3
  ELSE 0

\* The violations that apply to the post of the last validate_post answer,
\* by rank, from the rule set the same answer carries.
Applicable ==
  LET post == validated.post
      rules == validated.rules
  IN {r \in 1..3 :
        \/ r = 1 /\ post.content > rules.max_length
        \/ r = 2 /\ "image" \in rules.required_assets
                 /\ ~post.image
                 /\ \A a \in post.media_assets : a.file_type # "image"
        \/ r = 3 /\ "video" \in rules.required_assets
                 /\ ~post.video
                 /\ \A a \in post.media_assets : a.file_type # "video"}

\* C26: for a post with an account, validation returns exactly the applicable
\* violations, each once, in the order length, image, video; the list is
\* empty exactly when none applies.
C26_ExactViolationsInOrder ==
  (validated.by = "validate_post" /\ validated.post.social_account # NULL) =>
    LET e == validated.errors
    IN /\ {ViolationRank(e[i]) : i \in 1..Len(e)} = Applicable
       /\ Len(e) = Cardinality(Applicable)
       /\ \A i, j \in 1..Len(e) : i < j => ViolationRank(e[i]) < ViolationRank(e[j])
       /\ (e = <<>>) <=> (Applicable = {})

\* validate_post answered for a post that is too long and lacks the required
\* medium: two violations, the length first.
C26_Witness ==
  /\ validated.by = "validate_post"
  /\ validated.post.social_account # NULL
  /\ Len(validated.errors) = 2
  /\ ViolationRank(validated.errors[1]) = 1
  /\ ViolationRank(validated.errors[2]) \in {2, 3}

\* C27: when the account of the post is missing or inactive, validation
\* returns exactly one violation, the one about the account, and none about
\* content or media.
C27_AccountViolationOnly ==
  (/\ validated.by \in {"validate_post", "publisher"}
   /\ validated.post.social_account = NULL \/ ~validated.account.is_active)
  => /\ Len(validated.errors) = 1
     /\ ViolationRank(validated.errors[1]) = 0

C29_OneValidation ==
  validated.by \in {"task", "publisher"}
  => validated.errors = Post_validate_for_platform(validated.post, validated.account)

\* C30: for every platform kind the rules lookup returns a rule set (a
\* max_length and the required assets), and every kind without an entry in
\* the rules map gets the same default rule set.
C30_RulesLookupTotal ==
  (validated.by = "validate_post" /\ validated.post.social_account # NULL) =>
    LET rules == validated.rules
    IN /\ {"max_length", "required_assets"} \subseteq DOMAIN rules
       /\ rules.max_length \in Nat \ {0}
       /\ rules.required_assets \subseteq {"image", "video"}
       /\ validated.account.platform \notin RulesMapKinds => rules = DefaultRules

\* validate_post answered, with the default rule set, for an account of a
\* kind that has no entry in the rules map.
C30_Witness ==
  /\ validated.by = "validate_post"
  /\ validated.post.social_account # NULL
  /\ validated.account.platform \in SocialPlatform \ RulesMapKinds
  /\ validated.rules = DefaultRules

\* C31: the default rule set, returned for a kind without an entry in the
\* rules map, is the most restrictive one: its max_length is not larger than
\* that of any kind with an entry, and it supports neither images nor videos.
C31_DefaultIsMostRestrictive ==
  (/\ validated.by = "validate_post"
   /\ validated.post.social_account # NULL
   /\ validated.account.platform \notin RulesMapKinds)
  => /\ \A k \in RulesMapKinds :
          validated.rules.max_length <= get_platform_rules(k).max_length
     /\ ~validated.rules.supports_images
     /\ ~validated.rules.supports_videos

\* C32: a scheduled_time that is not in the future is never accepted: every
\* step that gives a post a new scheduled_time gives it one later than the
\* clock, and every deferred task that a step registers is due later than
\* the clock.
C32_PastScheduleRejected ==
  [][/\ \A p \in PostIds :
          (/\ posts'[p].scheduled_time # posts[p].scheduled_time
           /\ posts'[p].scheduled_time # NULL)
          => posts'[p].scheduled_time > now
     /\ \A m \in queue' \ queue : (~m.force /\ m.retries = 0) => m.eta > now]_vars

\* A draft without scheduled_time at a moment when a client's scheduled_time
\* has passed: the update that asks for it is refused, one that asks for a
\* later time is accepted.
C32_Witness ==
  \E p \in PostIds, sched \in SchedTimes :
    /\ posts[p].exists
    /\ posts[p].status = DRAFT
    /\ posts[p].scheduled_time = NULL
    /\ lock[p] = 0
    /\ sched <= now
    /\ ~ENABLED UpdatePost(p, TRUE, sched, FALSE, posts[p].content)
    /\ ENABLED UpdatePost(p, TRUE, TickStep * (MaxTicks + 1), FALSE, posts[p].content)

\* C33: a publish task delivered when its post does not exist returns the
\* not-found error result: the delivery changes no post and no account, adds
\* no message to the queue (no retry) and leaves the worker idle.
C33_MissingPostNotFound ==
  [][(/\ \A p \in PostIds : ~posts[p].exists
      /\ dups' # dups \/ \E m \in queue : m \notin queue')
     => /\ posts' = posts
        /\ account' = account
        /\ queue' \subseteq queue
        /\ \A w \in Workers :
             workers'[w] # workers[w]
             => /\ workers'[w].pc = "idle"
                /\ workers'[w].result.error = "Post not found"]_vars

\* A worker has answered "Post not found" for a task that was due after its
\* post was deleted.
C33_Witness ==
  /\ \A p \in PostIds : ~posts[p].exists
  /\ \E w \in Workers :
       /\ workers[w].pc = "idle"
       /\ workers[w].result.error = "Post not found"

C35_AttachmentsInOrder ==
  validated.calls > 0 =>
    LET post == validated.post
        urls == validated.media_urls
    IN /\ post.media_assets # {} =>
            /\ Len(urls) = Cardinality(post.media_assets)
            /\ \A i \in 1..Len(urls) :
                 \E a \in post.media_assets :
                   /\ a.url = urls[i]
                   /\ Cardinality({b \in post.media_assets : b.order < a.order}) = i - 1
       /\ (\E i \in 1..Len(urls) : Contains(urls[i], "legacy"))
            => post.media_assets = {}

C37_ScheduledHasDeferredTask ==
  \A p \in DOMAIN posts :
    (posts[p].exists /\ posts[p].status = SCHEDULED
       /\ posts[p].scheduled_time # NULL /\ posts[p].scheduled_time > now)
      => \E m \in queue : /\ m.post = p
                          /\ m.id \notin revoked
                          /\ ~m.force
                          /\ m.eta = posts[p].scheduled_time

\* C38: a step of Post.cancel_schedule() on a post that had a deferred task
\* leaves the post DRAFT with celery_task_id null and registers no new
\* deferred task, also when its scheduled_time is still in the future.
C38_CancelScheduleLeavesDraft ==
  [][\A p \in PostIds :
       PostCancelSchedule(p)
         => /\ posts'[p].status = DRAFT
            /\ posts'[p].celery_task_id = NULL
            /\ queue' = queue
            /\ nextTask' = nextTask]_vars

\* C39: a call of UniversalPublisher.publish_post that has set the post to
\* PUBLISHING never ends with the post left in PUBLISHING: the step in
\* which the call raises leaves the post FAILED, and the step in which it
\* writes its result leaves the post PUBLISHED.
C39_CallNeverLeavesPublishing ==
  [][\A c \in Workers :
       LET p == up[c].post
       IN /\ (up[c].pc \in {"publishing", "container"} /\ up'[c].pc = "idle")
             => posts'[p].status = FAILED
          /\ (up[c].pc = "adapter_ok" /\ up'[c].pc = "post_saved")
             => posts'[p].status = PUBLISHED]_vars
====
